---- MODULE Spec2Model ----
(***************************************************************************)
(* The transcription pipeline of video-transcript-extractor.               *)
(*                                                                         *)
(* The repository holds two implementations of the pipeline:               *)
(*   - the queue-backed one: routes/transcription.ts enqueue into a Bull   *)
(*     queue (QueueService) whose processor is                             *)
(*     TranscriptionWorker.processTranscriptionJob, with the job, video    *)
(*     and transcript records in the database;                             *)
(*   - apps/backend/integrated-server.js, the server start-dev.sh runs,    *)
(*     with in-memory Maps and a setTimeout per upload.                    *)
(* The variable server says which of the two is deployed.                  *)
(* The transcription stage's retry loop (WhisperService.retryWithBackoff)  *)
(* and the external sync (NotionService, integrated-server.js) have        *)
(* specifications of their own further down.                               *)
(***************************************************************************)
EXTENDS Integers, Sequences, FiniteSets, TLC

\* ---------------------------------------------------------------- bounds
NumVideos == 2
MaxQueueJobs == 2
MaxConcurrency == 2
MaxStoreFaults == 1
MaxStageFailures == 3

\* ------------------------------------------------------ program constants
\* defaultJobOptions.attempts of the Bull queue
MaxAttempts == 3
\* the priority POST /retry/:videoId enqueues with
RetryPriority == 10

Videos == 1..NumVideos

VARIABLES
    server,       \* "worker" (Bull queue + TranscriptionWorker) or "integrated"
    concurrency,  \* MAX_CONCURRENT_JOBS of the worker
    videoStatus,  \* video id -> status of the video record ("none": no record)
    jobRec,       \* video id -> the job record found by findOne({videoId})
    transcripts,  \* video id -> number of Transcript records stored for it
    qjobs,        \* the queue jobs (worker) / background runs (integrated), by id
    waitList,     \* Bull's wait list, next job to take first
    faults        \* store/queue write failures injected so far

pipeVars == <<server, concurrency, videoStatus, jobRec, transcripts, qjobs,
              waitList, faults>>

\* one call of WhisperService.transcribeAudio
VARIABLES
    wPc,          \* where the call is
    wAttempt,     \* the loop variable attempt of retryWithBackoff
    wRequests,    \* calls of openai.audio.transcriptions.create made so far
    wFailures,    \* what each failed request failed with, in order
    wWaits,       \* the backoff sleeps made so far, in ms, in order
    wOutcome,     \* "none" while the call runs, then "ok" or "error"
    wImpl,        \* "service" (WhisperService) or "integrated" (integrated-server.js)
    wOversized    \* the audio file is larger than the 25 MB limit

wInput == <<wImpl, wOversized>>
whisperVars == <<wPc, wAttempt, wRequests, wFailures, wWaits, wOutcome, wInput>>

\* sync calls for one (videoId, databaseId), one after the other
VARIABLES
    nImpl,        \* "service" (NotionService) or "integrated" (integrated-server.js)
    nHasVideoId,  \* the target database's schema has a property 'Video ID'
    nPages,       \* pages of the database that carry the video id, by page id
    nPc,          \* where the current call is
    nFound,       \* the page id the existence check found, 0 for none
    nResults      \* the results of the calls made so far, in order

\* the properties one sync call writes to a page of the target database
VARIABLES
    pSchema,      \* the names of the properties of the target database
    pData,        \* the optional values the transcript has
    pPath,        \* "none", then the path taken, as "service.create"
    pSent,        \* the names of the properties in the request
    pOutcome      \* "none", then "ok", "rejected" (validation) or "failed"

propVars == <<pSchema, pData, pPath, pSent, pOutcome>>

\* the requests of the sync call under way
VARIABLES
    nTokens,      \* the rate-limiter tokens the call has acquired
    nSent,        \* the requests the call has sent to the workspace
    nBlocks,      \* the blocks of the page being updated still to delete
    nContent      \* page id -> [body: the call that wrote it, status]

callVars == <<nTokens, nSent, nBlocks, nContent>>

\* the body text of a page and the chunks it is split into
VARIABLES
    sText,        \* transcript.content, a sequence of characters
    sBy,          \* "none", then the splitter that ran: "service", "integrated"
    sChunks       \* the chunks, in the order of their blocks

splitVars == <<sText, sBy, sChunks>>

\* the confidence derived from the segments of one transcription response
VARIABLES
    cSegments,    \* response.segments: [present, logprobs], avg_logprob each
    cBy,          \* "none", then who derived it: "service", "integrated"
    cConfidence,  \* the confidence derived
    cStored       \* the confidence of the transcript stored

confVars == <<cSegments, cBy, cConfidence, cStored>>

\* a number not assigned yet
Unset == [nan |-> FALSE, value |-> -1]

ConfIdle ==
    /\ cSegments = [present |-> FALSE, logprobs |-> <<>>]
    /\ cBy = "none" /\ cConfidence = Unset /\ cStored = Unset

\* the jobs table and the answer of one findPendingJobs call
VARIABLES
    fJobs,        \* the rows: [status, priority, createdAt], in creation order
    fCalled,      \* whether the call has been made
    fResult       \* the rows returned, in order

pendingVars == <<fJobs, fCalled, fResult>>

PendingIdle == fJobs = <<>> /\ fCalled = FALSE /\ fResult = <<>>

\* one run of the media-conversion subprocess and the call awaiting it
VARIABLES
    xImpl,        \* "service" (runFFmpeg) or "integrated" (extractAudio)
    xClock,       \* wall-clock ticks since the spawn
    xProc,        \* "running", "exited", "killed", "errored"
    xExitCode,    \* the code of the close event: 0, 1, or -1 for null
    xClosePending,\* a close event is due and not yet delivered
    xTimer,       \* "none", "armed", "fired", "cleared"
    xOutcome,     \* the promise: "pending", "resolved", "timeout", "failed"
    xCaller,      \* "awaiting", then "returned"
    xJob          \* the job: "processing", then "extracted" or "failed"

ffmpegVars == <<xImpl, xClock, xProc, xExitCode, xClosePending, xTimer,
                xOutcome, xCaller, xJob>>

FFmpegIdle ==
    /\ xImpl = "service" /\ xClock = 0 /\ xProc = "running" /\ xExitCode = 0
    /\ xClosePending = FALSE /\ xTimer = "none" /\ xOutcome = "pending"
    /\ xCaller = "awaiting" /\ xJob = "processing"

\* sync calls for one video and one database whose executions overlap
VARIABLES
    oImpl,        \* "service" or "integrated"
    oHasVideoId,  \* the database has a property 'Video ID'
    oPages,       \* ids of the pages that carry the video id
    oCalls        \* call -> [pc, found, query, result]

overlapVars == <<oImpl, oHasVideoId, oPages, oCalls>>

OverlapIdle ==
    /\ oImpl = "service" /\ oHasVideoId = TRUE /\ oPages = {} /\ oCalls = <<>>

notionVars == <<nImpl, nHasVideoId, nPages, nPc, nFound, nResults, callVars,
                propVars, splitVars,
                confVars,
                pendingVars,
                ffmpegVars,
                overlapVars>>

\* -------------------------------------------------------- progress values
\* A progress value is a number, or the JobProgress object
\* {stage, percentage, message} the worker hands to job.progress().
Num(n) == [kind |-> "number", pct |-> n, stage |-> "-"]
Obj(s, n) == [kind |-> "object", pct |-> n, stage |-> s]

NoJob == [status |-> "none", progress |-> Num(0), error |-> FALSE,
          startedAt |-> FALSE, completedAt |-> FALSE]

\* the record POST /start/:videoId creates, and POST /api/upload creates
NewJobRec == [status |-> "pending", progress |-> Num(0), error |-> FALSE,
              startedAt |-> FALSE, completedAt |-> FALSE]

QIdsOf(qs) == 1..Len(qs)
Active(qs) == {q \in QIdsOf(qs) : qs[q].state = "active"}


\* ------------------------------------------------------------ queue jobs
\* A queue job of Bull (worker) or a background run started by the upload
\* handler's setTimeout (integrated).  pc is the await the run is suspended
\* at; progress is the queue job's own progress (job.progress()); hasAudio
\* says that audioPath is set; stages lists the stages that ran to
\* completion in the current attempt and reports the progress percentages
\* the current attempt has passed to updateJobStatus and updateProgress so
\* far, in order.  file is the temporary audio file of the run's latest
\* extraction: "absent" (not written yet, or deleted), "present", or "kept"
\* once an unlink of it has failed; sweep is what is left of the directory
\* listing a cleanupOldFiles in progress works through, as the ids of the
\* runs the listed files belong to.
NewQJob(v, p, st, pc) ==
    [videoId |-> v, priority |-> p, state |-> st, attemptsMade |-> 0,
     progress |-> Num(0), pc |-> pc, hasAudio |-> FALSE, stages |-> <<>>,
     reports |-> <<>>, file |-> "absent", sweep |-> <<>>]

\* processTranscriptionJob of the worker.  A run is suspended at the awaits
\* that reach outside the queue job: the status writes, the three stage
\* calls, the end of the processor.  The updateProgress calls between them
\* touch only the queue job's own progress and are taken together with the
\* await they follow.
\* a processor that picks a retried run up at the transcription stage
ResumePc == "transcribe"

EntryPc == "jobProcessing"
CatchPc == "jobFailed"

NextPc(pc) ==
    CASE pc = "jobProcessing"  -> "extract"
      [] pc = "extract"        -> "transcribe"
      [] pc = "transcribe"     -> "save"
      [] pc = "save"           -> "videoCompleted"
      [] pc = "videoCompleted" -> "jobCompleted"
      [] pc = "jobCompleted"   -> "finish"
      [] pc = "jobFailed"      -> "videoFailed"
      [] pc = "videoFailed"    -> "readdir"
      [] pc = "readdir"        -> "sweep"
      [] pc = "sweep"          -> "rethrow"

\* the JobProgress values of the updateProgress calls that follow the await
\* at pc, in program order
Checkpoints(pc) ==
    CASE pc = "jobProcessing" -> <<Obj("audio_extraction", 10)>>
      [] pc = "extract"       -> <<Obj("audio_extraction", 30),
                                   Obj("transcription", 40)>>
      [] pc = "transcribe"    -> <<Obj("transcription", 80),
                                   Obj("storage", 90)>>
      [] pc = "finish"        -> <<Obj("storage", 100)>>
      [] OTHER                -> <<>>

Pcts(ps) == [i \in 1..Len(ps) |-> ps[i].pct]

\* the queue job after the updateProgress calls that follow the await at pc
Progressed(qj, pc) ==
    IF Checkpoints(pc) = <<>> THEN qj
    ELSE [qj EXCEPT !.progress = Checkpoints(pc)[Len(Checkpoints(pc))],
                    !.reports = @ \o Pcts(Checkpoints(pc))]

\* a saveTranscript that logs the failure of the store and returns
SaveFailureContinues == NextPc("save")

\* where the run goes when transcriptRepo.save throws: saveTranscript
\* rethrows, so the catch block of processTranscriptionJob
SaveFailurePc == CatchPc

\* a catch block that writes progress 0 with status failed
FailureProgressReset(qj) == Num(0)

\* the progress the catch block writes with status failed: job.progress()
FailureProgress(qj) == qj.progress

\* TranscriptionWorker.updateJobStatus, the write having succeeded.  The
\* error message is assigned to job.error, which is no column of the Job
\* entity (the column is errorMessage): save() does not store it, and the
\* record a reader loads has none.  failedAt is not touched.
UpdateJobStatus(jr, v, status, progress, hasErr) ==
    IF jr[v].status = "none" THEN jr
    ELSE [jr EXCEPT ![v] =
            [@ EXCEPT !.status = status,
                      !.progress = progress,
                      !.startedAt = (status = "processing") \/ @,
                      !.completedAt = (status \in {"completed", "failed"}) \/ @]]

\* TranscriptionWorker.updateVideoStatus, the write having succeeded
UpdateVideoStatus(vs, v, status) ==
    IF vs[v] = "none" THEN vs ELSE [vs EXCEPT ![v] = status]

\* ------------------------------------------------------------ Bull queue
InsertAt(s, i, x) == SubSeq(s, 1, i - 1) \o <<x>> \o SubSeq(s, i, Len(s))

\* a queue that ignores the priority option: first in, first out
AddToBack(wl, qs, id, p) == Append(wl, id)

\* Bull's addJob: a job without priority goes to the back of the wait list;
\* a job with priority p is placed behind the waiting jobs whose priority
\* is set and at most p, ahead of everything else.
AddToWait(wl, qs, id, p) ==
    IF p = 0 THEN Append(wl, id)
    ELSE LET ahead == {i \in 1..Len(wl) :
                         qs[wl[i]].priority > 0 /\ qs[wl[i]].priority <= p}
         IN InsertAt(wl, Cardinality(ahead) + 1, id)

\* QueueService.addTranscriptionJob
Enqueue(v, p) ==
    /\ Len(qjobs) < MaxQueueJobs
    /\ qjobs' = Append(qjobs, NewQJob(v, p, "waiting", "-"))
    /\ waitList' = AddToWait(waitList, qjobs, Len(qjobs) + 1, p)

\* --------------------------------------------------------------- routes
\* POST /start/:videoId: refused unless the video has no job or a failed one
StartTranscription(v) ==
    /\ server = "worker"
    /\ videoStatus[v] # "none"
    /\ jobRec[v].status \in {"none", "failed"}
    /\ jobRec' = [jobRec EXCEPT ![v] =
                    IF @.status = "none" THEN NewJobRec
                    ELSE [@ EXCEPT !.status = "pending", !.progress = Num(0),
                                   !.error = FALSE]]
    /\ Enqueue(v, 0)
    /\ UNCHANGED <<whisperVars, notionVars, server, concurrency, videoStatus, transcripts, faults>>

\* a retry route that resets whatever job the video has
RetryAnyJob(status) == status # "none"

\* POST /retry/:videoId: if (job.status !== 'failed') throw 400
RetryAllowed(status) == status = "failed"

\* POST /retry/:videoId: refused unless the video's job is failed
RetryTranscription(v) ==
    /\ server = "worker"
    /\ videoStatus[v] # "none"
    /\ RetryAllowed(jobRec[v].status)
    /\ jobRec' = [jobRec EXCEPT ![v] =
                    [@ EXCEPT !.status = "pending", !.progress = Num(0),
                              !.error = FALSE, !.startedAt = FALSE,
                              !.completedAt = FALSE]]
    /\ Enqueue(v, RetryPriority)
    /\ UNCHANGED <<whisperVars, notionVars, server, concurrency, videoStatus, transcripts, faults>>

\* ------------------------------------------------------- Bull scheduling
\* queue.process('transcribe-video', concurrency, ...): the next waiting
\* job is handed to the processor while fewer than concurrency are active.
BeginAttempt(q) ==
    /\ server = "worker"
    /\ waitList # <<>>
    /\ q = Head(waitList)
    /\ Cardinality(Active(qjobs)) < concurrency
    /\ waitList' = Tail(waitList)
    /\ qjobs' = [qjobs EXCEPT ![q] =
                    [@ EXCEPT !.state = "active", !.pc = EntryPc,
                              !.hasAudio = FALSE, !.stages = <<>>,
                              !.reports = <<>>]]
    /\ UNCHANGED <<whisperVars, notionVars, server, concurrency, videoStatus, jobRec, transcripts,
                   faults>>

\* the backoff delay has passed: the job is waiting again
PromoteDelayed(q) ==
    /\ server = "worker"
    /\ q \in QIdsOf(qjobs)
    /\ qjobs[q].state = "delayed"
    /\ qjobs' = [qjobs EXCEPT ![q] = [@ EXCEPT !.state = "waiting"]]
    /\ waitList' = AddToWait(waitList, qjobs, q, qjobs[q].priority)
    /\ UNCHANGED <<whisperVars, notionVars, server, concurrency, videoStatus, jobRec, transcripts,
                   faults>>

\* ------------------------------ TranscriptionWorker.processTranscriptionJob
AtPc(q, pc) == q \in Active(qjobs) /\ qjobs[q].pc = pc

\* The stage calls that have failed so far: the attempts that ended by
\* throwing and the runs now in the catch block (worker), the runs that
\* ended in the catch block (integrated).  A stage call can fail while
\* fewer than MaxStageFailures have.
RECURSIVE AttemptsMade(_)
AttemptsMade(qs) ==
    IF qs = <<>> THEN 0 ELSE Head(qs).attemptsMade + AttemptsMade(Tail(qs))

StageFailures ==
    IF server = "worker"
    THEN AttemptsMade(qjobs)
         + Cardinality({q \in QIdsOf(qjobs) :
                          qjobs[q].pc \in {"jobFailed", "videoFailed", "readdir",
                                           "sweep", "rethrow"}})
    ELSE Cardinality({q \in QIdsOf(qjobs) :
                        jobRec[qjobs[q].videoId].status = "failed"})

StageFails == StageFailures < MaxStageFailures

\* ------------------------------------------------- the scratch directory
Exists(file) == file \in {"present", "kept"}

\* fs.unlink of a file: a file that is there is removed, or stays when the
\* unlink fails; one that is not there stays away
Unlinked(file, ok) ==
    IF Exists(file) THEN (IF ok THEN "absent" ELSE "kept") ELSE file

\* the runs whose audio file is in the directory
Listed(qs) == {i \in QIdsOf(qs) : Exists(qs[i].file)}

\* the orders a listing of the files of the runs in S can come in
Orderings(S) ==
    {sw \in [1..Cardinality(S) -> S] :
        \A i, j \in 1..Cardinality(S) : sw[i] = sw[j] => i = j}

\* a database write the code wraps in try/catch and only logs fails:
\* nothing is written
Fault == faults < MaxStoreFaults /\ faults' = faults + 1
NoFault == faults' = faults

Goto(q, pc) == qjobs' = [qjobs EXCEPT ![q] = [@ EXCEPT !.pc = pc]]

\* await this.updateJobStatus(videoId, 'processing', 0), then
\* updateProgress 10 and the call of extractAudio
JobProcessing(q) ==
    /\ AtPc(q, "jobProcessing")
    /\ \/ /\ NoFault
          /\ jobRec' = UpdateJobStatus(jobRec, qjobs[q].videoId, "processing",
                                       Num(0), FALSE)
       \/ /\ Fault
          /\ UNCHANGED jobRec
    /\ qjobs' = [qjobs EXCEPT ![q] =
                    Progressed([@ EXCEPT !.pc = NextPc("jobProcessing"),
                                         !.reports = Append(@, 0)],
                               "jobProcessing")]
    /\ UNCHANGED <<whisperVars, notionVars, server, concurrency, waitList, videoStatus, transcripts>>

\* await audioExtractorService.extractAudio(videoPath, ...) settles; on
\* success updateProgress 30 and 40 and the call of transcribeAudio
ExtractAudio(q) ==
    /\ AtPc(q, "extract")
    /\ \/ qjobs' = [qjobs EXCEPT ![q] =
                       Progressed([@ EXCEPT !.pc = NextPc("extract"),
                                            !.hasAudio = TRUE,
                                            !.file = "present",
                                            !.stages = Append(@, "extract")],
                                  "extract")]
       \/ StageFails /\ Goto(q, CatchPc)
    /\ UNCHANGED <<whisperVars, notionVars, server, concurrency, waitList, videoStatus, jobRec,
                   transcripts, faults>>

\* await whisperService.transcribeAudio(audioPath, ...) settles; on success
\* updateProgress 80 and 90 and the call of saveTranscript.  With the audio
\* file gone fs.stat(audioPath) throws.
TranscribeAudio(q) ==
    /\ AtPc(q, "transcribe")
    /\ \/ /\ Exists(qjobs[q].file)
          /\ qjobs' = [qjobs EXCEPT ![q] =
                          Progressed([@ EXCEPT !.pc = NextPc("transcribe"),
                                               !.stages = Append(@, "transcribe")],
                                     "transcribe")]
       \/ /\ StageFails \/ ~Exists(qjobs[q].file)
          /\ Goto(q, CatchPc)
    /\ UNCHANGED <<whisperVars, notionVars, server, concurrency, waitList, videoStatus, jobRec,
                   transcripts, faults>>

\* await this.saveTranscript(videoId, transcriptionResult) settles: a new
\* Transcript is inserted.  Transcript.video is a one-to-one relation joined
\* on videoId, so the insert of a second row for the video is refused and
\* throws, as does any other failure of the store.
SaveTranscript(q) ==
    /\ AtPc(q, "save")
    /\ \/ /\ transcripts[qjobs[q].videoId] = 0
          /\ transcripts' = [transcripts EXCEPT ![qjobs[q].videoId] = 1]
          /\ qjobs' = [qjobs EXCEPT ![q] =
                          [@ EXCEPT !.pc = NextPc("save"),
                                    !.stages = Append(@, "save")]]
       \/ /\ StageFails \/ transcripts[qjobs[q].videoId] # 0
          /\ Goto(q, SaveFailurePc)
          /\ UNCHANGED transcripts
    /\ UNCHANGED <<whisperVars, notionVars, server, concurrency, waitList, videoStatus, jobRec, faults>>

\* await this.updateVideoStatus(videoId, 'completed')
VideoCompleted(q) ==
    /\ AtPc(q, "videoCompleted")
    /\ \/ /\ NoFault
          /\ videoStatus' = UpdateVideoStatus(videoStatus, qjobs[q].videoId,
                                              "completed")
       \/ /\ Fault
          /\ UNCHANGED videoStatus
    /\ Goto(q, NextPc("videoCompleted"))
    /\ UNCHANGED <<whisperVars, notionVars, server, concurrency, waitList, jobRec, transcripts>>

\* await this.updateJobStatus(videoId, 'completed', 100)
JobCompleted(q) ==
    /\ AtPc(q, "jobCompleted")
    /\ \/ /\ NoFault
          /\ jobRec' = UpdateJobStatus(jobRec, qjobs[q].videoId, "completed",
                                       Num(100), FALSE)
       \/ /\ Fault
          /\ UNCHANGED jobRec
    /\ qjobs' = [qjobs EXCEPT ![q] =
                    [@ EXCEPT !.pc = NextPc("jobCompleted"),
                              !.reports = Append(@, 100)]]
    /\ UNCHANGED <<whisperVars, notionVars, server, concurrency, waitList, videoStatus, transcripts>>

\* await cleanupAudioFile(audioPath) (best effort), updateProgress 100, and
\* the processor returns: Bull moves the job to completed
Finish(q) ==
    /\ AtPc(q, "finish")
    /\ \E ok \in BOOLEAN :
          /\ IF ok THEN NoFault ELSE Fault /\ Exists(qjobs[q].file)
          /\ qjobs' = [qjobs EXCEPT ![q] =
                          Progressed([@ EXCEPT !.state = "completed", !.pc = "-",
                                               !.hasAudio = FALSE,
                                               !.file = Unlinked(@, ok)],
                                     "finish")]
    /\ UNCHANGED <<whisperVars, notionVars, server, concurrency, videoStatus, jobRec, transcripts,
                   waitList>>

\* catch: await this.updateJobStatus(videoId, 'failed', job.progress(),
\* error.message)
JobFailed(q) ==
    /\ AtPc(q, "jobFailed")
    /\ \/ /\ NoFault
          /\ jobRec' = UpdateJobStatus(jobRec, qjobs[q].videoId, "failed",
                                       FailureProgress(qjobs[q]), TRUE)
       \/ /\ Fault
          /\ UNCHANGED jobRec
    /\ qjobs' = [qjobs EXCEPT ![q] =
                    [@ EXCEPT !.pc = NextPc("jobFailed"),
                              !.reports =
                                 Append(@, FailureProgress(qjobs[q]).pct)]]
    /\ UNCHANGED <<whisperVars, notionVars, server, concurrency, waitList, videoStatus, transcripts>>

\* catch: await this.updateVideoStatus(videoId, 'failed')
VideoFailed(q) ==
    /\ AtPc(q, "videoFailed")
    /\ \/ /\ NoFault
          /\ videoStatus' = UpdateVideoStatus(videoStatus, qjobs[q].videoId,
                                              "failed")
       \/ /\ Fault
          /\ UNCHANGED videoStatus
    /\ Goto(q, NextPc("videoFailed"))
    /\ UNCHANGED <<whisperVars, notionVars, server, concurrency, waitList, jobRec, transcripts>>

\* catch: cleanupOldFiles(0), await fs.readdir(tempDir) answers with the
\* files of the directory, in the order the file system gives them
ReadDir(q) ==
    /\ AtPc(q, "readdir")
    /\ \E sw \in Orderings(Listed(qjobs)) :
          qjobs' = [qjobs EXCEPT ![q] =
                      [@ EXCEPT !.sweep = sw,
                                !.pc = IF sw = <<>> THEN NextPc("sweep")
                                       ELSE NextPc("readdir")]]
    /\ UNCHANGED <<whisperVars, notionVars, server, concurrency, videoStatus, jobRec, transcripts,
                   waitList, faults>>

\* catch: cleanupOldFiles(0), one round of the loop over the listing: stat
\* the file and, as every file written before now is older than 0 ms,
\* cleanupAudioFile it, whichever run it belongs to; a failed unlink is
\* logged.  A file that is gone since the listing makes fs.stat throw: the
\* catch of cleanupOldFiles logs it and the rest of the listing is left.
Sweep(q) ==
    /\ AtPc(q, "sweep")
    /\ LET f == Head(qjobs[q].sweep)
           rest == Tail(qjobs[q].sweep)
           Swept(ok, left) ==
               [i \in QIdsOf(qjobs) |->
                   [[qjobs[i] EXCEPT !.file = IF i = f THEN Unlinked(@, ok) ELSE @]
                       EXCEPT !.sweep = IF i = q THEN left ELSE @,
                              !.pc = IF i # q THEN @
                                     ELSE IF left = <<>> THEN NextPc("sweep")
                                     ELSE "sweep"]]
       IN IF ~Exists(qjobs[f].file)
          THEN NoFault /\ qjobs' = Swept(TRUE, <<>>)
          ELSE \/ NoFault /\ qjobs' = Swept(TRUE, rest)
               \/ Fault /\ qjobs' = Swept(FALSE, rest)
    /\ UNCHANGED <<whisperVars, notionVars, server, concurrency, videoStatus, jobRec, transcripts,
                   waitList>>

\* catch: throw error: Bull counts the attempt and, with attempts left,
\* delays the job for its backoff; otherwise the job is failed for good
Rethrow(q) ==
    /\ AtPc(q, "rethrow")
    /\ qjobs' = [qjobs EXCEPT ![q] =
                    [@ EXCEPT !.attemptsMade = @ + 1,
                              !.state = IF qjobs[q].attemptsMade + 1 < MaxAttempts
                                        THEN "delayed" ELSE "failed",
                              !.pc = "-", !.hasAudio = FALSE]]
    /\ UNCHANGED <<whisperVars, notionVars, server, concurrency, videoStatus, jobRec, transcripts,
                   waitList, faults>>

\* ------------------------------------------------- integrated-server.js
\* POST /api/upload: the video and its job are created and
\* processTranscriptionJob is scheduled with setTimeout(..., 1000)
IUpload(v) ==
    /\ server = "integrated"
    /\ videoStatus[v] = "none"
    /\ Len(qjobs) < MaxQueueJobs
    /\ videoStatus' = [videoStatus EXCEPT ![v] = "uploaded"]
    /\ jobRec' = [jobRec EXCEPT ![v] = NewJobRec]
    /\ qjobs' = Append(qjobs, NewQJob(v, 0, "delayed", "timer"))
    /\ UNCHANGED <<whisperVars, notionVars, server, concurrency, transcripts, waitList, faults>>

\* the timer fires: processTranscriptionJob up to await extractAudio
ITimer(q) ==
    /\ server = "integrated"
    /\ q \in QIdsOf(qjobs)
    /\ qjobs[q].pc = "timer"
    /\ jobRec' = [jobRec EXCEPT ![qjobs[q].videoId] =
                    [@ EXCEPT !.status = "processing", !.progress = Num(10),
                              !.startedAt = TRUE]]
    /\ qjobs' = [qjobs EXCEPT ![q] =
                    [@ EXCEPT !.state = "active", !.pc = "i_extract",
                              !.reports = <<10>>]]
    /\ UNCHANGED <<whisperVars, notionVars, server, concurrency, videoStatus, transcripts, waitList,
                   faults>>

\* the catch block: job and video failed, the progress left as it is
IFailed(jr, v) ==
    [jr EXCEPT ![v] = [@ EXCEPT !.status = "failed", !.error = TRUE,
                                !.completedAt = TRUE]]

\* extractAudio settles.  Resolved: progress 40, on to await
\* transcribeAudio.  Rejected: catch, and finally has no audioPath to unlink.
IExtractDone(q) ==
    /\ AtPc(q, "i_extract")
    /\ \/ /\ jobRec' = [jobRec EXCEPT ![qjobs[q].videoId] =
                          [@ EXCEPT !.progress = Num(40)]]
          /\ qjobs' = [qjobs EXCEPT ![q] =
                          [@ EXCEPT !.pc = "i_transcribe", !.hasAudio = TRUE,
                                    !.file = "present",
                                    !.stages = Append(@, "extract"),
                                    !.reports = Append(@, 40)]]
          /\ UNCHANGED videoStatus
       \/ /\ StageFails
          /\ jobRec' = IFailed(jobRec, qjobs[q].videoId)
          /\ videoStatus' = [videoStatus EXCEPT ![qjobs[q].videoId] = "failed"]
          /\ qjobs' = [qjobs EXCEPT ![q] =
                          [@ EXCEPT !.state = "failed", !.pc = "-"]]
    /\ UNCHANGED <<whisperVars, notionVars, server, concurrency, transcripts, waitList, faults>>

\* transcribeAudio settles.  Resolved: progress 90, the transcript object is
\* built and, with no await in between, the job is completed with progress
\* 100 and the transcript is attached to the job and the video.  Rejected:
\* catch.  Either way finally goes on to await fs.unlink(audioPath).
ITranscribeDone(q) ==
    /\ AtPc(q, "i_transcribe")
    /\ \/ /\ jobRec' = [jobRec EXCEPT ![qjobs[q].videoId] =
                          [@ EXCEPT !.status = "completed",
                                    !.progress = Num(100),
                                    !.completedAt = TRUE]]
          /\ videoStatus' = [videoStatus EXCEPT ![qjobs[q].videoId] = "completed"]
          /\ transcripts' = [transcripts EXCEPT ![qjobs[q].videoId] = 1]
          /\ qjobs' = [qjobs EXCEPT ![q] =
                          [@ EXCEPT !.pc = "i_unlink",
                                    !.stages = @ \o <<"transcribe", "save">>,
                                    !.reports = @ \o <<90, 100>>]]
       \/ /\ StageFails
          /\ jobRec' = IFailed(jobRec, qjobs[q].videoId)
          /\ videoStatus' = [videoStatus EXCEPT ![qjobs[q].videoId] = "failed"]
          /\ Goto(q, "i_unlink")
          /\ UNCHANGED transcripts
    /\ UNCHANGED <<whisperVars, notionVars, server, concurrency, waitList, faults>>

\* finally: await fs.unlink(audioPath), a failure of which is logged
IUnlink(q) ==
    /\ AtPc(q, "i_unlink")
    /\ \E ok \in BOOLEAN :
          /\ IF ok THEN NoFault ELSE Fault /\ Exists(qjobs[q].file)
          /\ qjobs' = [qjobs EXCEPT ![q] =
                          [@ EXCEPT !.state = IF jobRec[qjobs[q].videoId].status = "completed"
                                              THEN "completed" ELSE "failed",
                                    !.pc = "-", !.hasAudio = FALSE,
                                    !.file = Unlinked(@, ok)]]
    /\ UNCHANGED <<whisperVars, notionVars, server, concurrency, videoStatus, jobRec, transcripts,
                   waitList>>

\* ------------------------------------------------------- specification
vars == <<pipeVars, whisperVars, notionVars>>

\* the parts of the state a specification does not exercise
PipeIdle ==
    /\ server = "worker" /\ concurrency = 1
    /\ videoStatus = [v \in Videos |-> "uploaded"]
    /\ jobRec = [v \in Videos |-> NoJob]
    /\ transcripts = [v \in Videos |-> 0]
    /\ qjobs = <<>> /\ waitList = <<>> /\ faults = 0

WhisperIdle ==
    /\ wPc = "idle" /\ wAttempt = 0 /\ wRequests = 0
    /\ wFailures = <<>> /\ wWaits = <<>> /\ wOutcome = "none"
    /\ wImpl = "service" /\ wOversized = FALSE

PropIdle ==
    /\ pSchema = {} /\ pData = {} /\ pPath = "none"
    /\ pSent = {} /\ pOutcome = "none"

SplitIdle == sText = <<>> /\ sBy = "none" /\ sChunks = <<>>

NotionIdle ==
    /\ nImpl = "service" /\ nHasVideoId = TRUE /\ nPages = {}
    /\ nPc = "idle" /\ nFound = 0 /\ nResults = <<>>
    /\ nTokens = 0 /\ nSent = 0 /\ nBlocks = 0 /\ nContent = <<>>
    /\ PropIdle
    /\ SplitIdle
    /\ ConfIdle
    /\ PendingIdle
    /\ FFmpegIdle
    /\ OverlapIdle

Init ==
    /\ \/ server = "worker" /\ concurrency \in 1..MaxConcurrency
       \/ server = "integrated" /\ concurrency = 1
    /\ videoStatus = [v \in Videos |->
                        IF server = "worker" THEN "uploaded" ELSE "none"]
    /\ jobRec = [v \in Videos |-> NoJob]
    /\ transcripts = [v \in Videos |-> 0]
    /\ qjobs = <<>>
    /\ waitList = <<>>
    /\ faults = 0
    /\ WhisperIdle
    /\ NotionIdle

Next ==
    \/ \E v \in Videos :
          \/ StartTranscription(v)
          \/ RetryTranscription(v)
          \/ IUpload(v)
    \/ \E q \in 1..MaxQueueJobs :
          \/ BeginAttempt(q)
          \/ JobProcessing(q)
          \/ ExtractAudio(q)
          \/ TranscribeAudio(q)
          \/ SaveTranscript(q)
          \/ VideoCompleted(q)
          \/ JobCompleted(q)
          \/ Finish(q)
          \/ JobFailed(q)
          \/ VideoFailed(q)
          \/ ReadDir(q)
          \/ Sweep(q)
          \/ Rethrow(q)
          \/ PromoteDelayed(q)
          \/ ITimer(q)
          \/ IExtractDone(q)
          \/ ITranscribeDone(q)
          \/ IUnlink(q)

Spec == Init /\ [][Next]_vars

\* A run that is suspended at an await resumes once the awaited call has
\* settled: the continuation of an active run is eventually taken.
RunStep(q) ==
    \/ JobProcessing(q)
    \/ ExtractAudio(q)
    \/ TranscribeAudio(q)
    \/ SaveTranscript(q)
    \/ VideoCompleted(q)
    \/ JobCompleted(q)
    \/ Finish(q)
    \/ JobFailed(q)
    \/ VideoFailed(q)
    \/ ReadDir(q)
    \/ Sweep(q)
    \/ Rethrow(q)
    \/ IExtractDone(q)
    \/ ITranscribeDone(q)
    \/ IUnlink(q)

\* Bull hands a waiting job to the processor when a slot is free and moves
\* a delayed job back to waiting when its backoff has passed; the timer
\* the upload handler sets fires.
Schedule(q) ==
    \/ BeginAttempt(q)
    \/ PromoteDelayed(q)
    \/ ITimer(q)

\* The pipeline under the assumption that every external call settles and
\* the scheduler keeps scheduling.
SpecSettling ==
    /\ Init /\ [][Next]_vars
    /\ \A q \in 1..MaxQueueJobs : WF_vars(RunStep(q)) /\ WF_vars(Schedule(q))

\* ------------------------------------------- WhisperService.transcribeAudio
\* the arguments transcribeAudio passes to retryWithBackoff
MaxRetries == 3
BaseDelay == 1000

\* What a request can fail with: the status of an OpenAI.APIError, or an
\* error that is no APIError (connection lost, timeout), written 0.
NetworkError == 0
ErrorKinds == {NetworkError, 500, 429, 400, 401, 403, 404, 413}

\* the statuses retryWithBackoff rethrows at once
NoRetryStatuses == {400, 401, 413}

RECURSIVE Pow2(_)
Pow2(n) == IF n = 0 THEN 1 ELSE 2 * Pow2(n - 1)

\* const delay = baseDelay * Math.pow(2, attempt)
BackoffDelay(attempt) == BaseDelay * Pow2(attempt)

WDone(outcome) == wPc' = "done" /\ wOutcome' = outcome

\* fs.stat(audioPath) and the size check against maxFileSize: a file over
\* the limit makes the call throw before anything is sent
WCheckSize ==
    /\ wImpl = "service"
    /\ wPc = "start"
    /\ IF wOversized THEN WDone("error")
       ELSE wPc' = "rateLimit" /\ UNCHANGED wOutcome
    /\ UNCHANGED <<wAttempt, wRequests, wFailures, wWaits, wInput,
                   pipeVars, notionVars>>

\* transcribeAudio of integrated-server.js: the file is streamed to
\* openai.audio.transcriptions.create as it is, whatever its size; a
\* failure is rethrown as 'Transcription failed: ...'
WIRequestOk ==
    /\ wImpl = "integrated"
    /\ wPc = "start"
    /\ wRequests' = wRequests + 1
    /\ WDone("ok")
    /\ UNCHANGED <<wAttempt, wFailures, wWaits, wInput, pipeVars, notionVars>>

WIRequestFails(e) ==
    /\ wImpl = "integrated"
    /\ wPc = "start"
    /\ wRequests' = wRequests + 1
    /\ wFailures' = Append(wFailures, e)
    /\ WDone("error")
    /\ UNCHANGED <<wAttempt, wWaits, wInput, pipeVars, notionVars>>

\* await this.rateLimitDelay().  The class declares rateLimitDelay twice, as
\* a field (= 334) and as a method; where the field wins the call throws a
\* TypeError, where the method wins it sleeps and the retry loop is entered.
WRateLimit ==
    /\ wPc = "rateLimit"
    /\ \/ wPc' = "request" /\ UNCHANGED wOutcome
       \/ WDone("error")
    /\ UNCHANGED <<wAttempt, wRequests, wFailures, wWaits, wInput,
                   pipeVars, notionVars>>

\* retryWithBackoff: return await fn(), the request succeeds
WRequestOk ==
    /\ wPc = "request"
    /\ wRequests' = wRequests + 1
    /\ WDone("ok")
    /\ UNCHANGED <<wAttempt, wFailures, wWaits, wInput,
                   pipeVars, notionVars>>

\* retryWithBackoff: await fn() throws; lastError = error
WRequestFails(e) ==
    /\ wPc = "request"
    /\ wRequests' = wRequests + 1
    /\ wFailures' = Append(wFailures, e)
    /\ wPc' = "caught"
    /\ UNCHANGED <<wAttempt, wWaits, wOutcome, wInput,
                   pipeVars, notionVars>>

\* if (attempt === maxRetries) break; ... throw lastError
WLastAttempt ==
    /\ wPc = "caught"
    /\ wAttempt = MaxRetries
    /\ WDone("error")
    /\ UNCHANGED <<wAttempt, wRequests, wFailures, wWaits, wInput,
                   pipeVars, notionVars>>

\* an APIError with status 400, 401 or 413 is rethrown
WNoRetry ==
    /\ wPc = "caught"
    /\ wAttempt # MaxRetries
    /\ wFailures[Len(wFailures)] \in NoRetryStatuses
    /\ WDone("error")
    /\ UNCHANGED <<wAttempt, wRequests, wFailures, wWaits, wInput,
                   pipeVars, notionVars>>

\* await this.sleep(delay); attempt++ and the next round of the loop
WBackoff ==
    /\ wPc = "caught"
    /\ wAttempt # MaxRetries
    /\ wFailures[Len(wFailures)] \notin NoRetryStatuses
    /\ wWaits' = Append(wWaits, BackoffDelay(wAttempt))
    /\ wAttempt' = wAttempt + 1
    /\ wPc' = "request"
    /\ UNCHANGED <<wRequests, wFailures, wOutcome, wInput,
                   pipeVars, notionVars>>

InitWhisper ==
    /\ PipeIdle
    /\ NotionIdle
    /\ wImpl \in {"service", "integrated"}
    /\ wOversized \in BOOLEAN
    /\ wPc = "start" /\ wAttempt = 0 /\ wRequests = 0
    /\ wFailures = <<>> /\ wWaits = <<>> /\ wOutcome = "none"

NextWhisper ==
    \/ WCheckSize
    \/ WIRequestOk
    \/ \E e \in ErrorKinds : WIRequestFails(e)
    \/ WRateLimit
    \/ WRequestOk
    \/ \E e \in ErrorKinds : WRequestFails(e)
    \/ WLastAttempt
    \/ WNoRetry
    \/ WBackoff

SpecWhisper == InitWhisper /\ [][NextWhisper]_vars

\* ------------------------------------------------------------ the sync
\* Sync calls for one video and one target database, made one after the
\* other: NotionService.createTranscriptPage, or the handler of
\* POST /api/notion/sync/transcript/:videoId of integrated-server.js.
MaxSyncCalls == 3

\* SyncResult
SyncOk(pageId, duplicate) ==
    [success |-> TRUE, pageId |-> pageId, duplicate |-> duplicate]
SyncFailed == [success |-> FALSE, pageId |-> 0, duplicate |-> FALSE]

NReturn(result) ==
    /\ nResults' = Append(nResults, result)
    /\ nPc' = "idle"
    /\ nFound' = 0

\* where a call goes once the existence check has settled with page id
\* found (0: none): updateTranscriptPage / pages.update, or pages.create
NAfterCheck(found) == IF found # 0 THEN "update" ELSE "create"

\* await this.rateLimiter.removeTokens(1), which the service has ahead of a
\* request; integrated-server.js has no rate limiter
RemoveTokens(impl) == IF impl = "service" THEN 1 ELSE 0

\* one request goes out to the workspace, after tokens have been taken
SendRequest(tokens) ==
    /\ nTokens' = nTokens + tokens
    /\ nSent' = nSent + 1

\* a call starts: findExistingTranscript (service), or
\* notion.databases.retrieve (integrated)
\* the number of the call under way: the transcript it syncs
ThisCall == Len(nResults) + 1

NBeginCall ==
    /\ nPc = "idle"
    /\ Len(nResults) < MaxSyncCalls
    /\ nPc' = IF nImpl = "service" THEN "query" ELSE "retrieve"
    /\ nTokens' = 0
    /\ nSent' = 0
    /\ UNCHANGED <<nContent, nImpl, nHasVideoId, nPages, nFound, nResults, nBlocks,
                   propVars, splitVars, confVars,
                   pendingVars,
                   ffmpegVars,
                   overlapVars,
                   pipeVars, whisperVars>>

\* integrated: await notion.databases.retrieve settles.  With no property
\* 'Video ID' in the schema the existence query is skipped and existingCheck
\* stays { results: [] }; a failure is caught by the handler: status 500.
NRetrieve ==
    /\ nPc = "retrieve"
    /\ SendRequest(RemoveTokens(nImpl))
    /\ \/ /\ nPc' = IF nHasVideoId THEN "query" ELSE NAfterCheck(0)
          /\ UNCHANGED <<nFound, nResults>>
       \/ NReturn(SyncFailed)
    /\ UNCHANGED <<nContent, nImpl, nHasVideoId, nPages, nBlocks, propVars,
                   splitVars, confVars,
                   pendingVars,
                   ffmpegVars,
                   overlapVars,
                   pipeVars, whisperVars>>

\* await databases.query({filter: 'Video ID' equals videoId}) answers:
\* results[0] is one of the pages that carry the video id, if there is one
NQueryOk ==
    /\ nPc = "query"
    /\ SendRequest(RemoveTokens(nImpl))
    /\ \/ nPages = {} /\ nFound' = 0
       \/ nFound' \in nPages
    /\ nPc' = NAfterCheck(nFound')
    /\ UNCHANGED <<nContent, nImpl, nHasVideoId, nPages, nResults, nBlocks, propVars,
                   splitVars, confVars,
                   pendingVars,
                   ffmpegVars,
                   overlapVars,
                   pipeVars, whisperVars>>

\* the existence query fails (rate limit, network, unauthorized).
\* findExistingTranscript catches the error and returns { exists: false };
\* the handler of integrated-server.js answers 500.
NQueryFails ==
    /\ nPc = "query"
    /\ SendRequest(RemoveTokens(nImpl))
    /\ \/ /\ nImpl = "service"
          /\ nFound' = 0
          /\ nPc' = NAfterCheck(0)
          /\ UNCHANGED nResults
       \/ /\ nImpl = "integrated"
          /\ NReturn(SyncFailed)
    /\ UNCHANGED <<nContent, nImpl, nHasVideoId, nPages, nBlocks, propVars,
                   splitVars, confVars,
                   pendingVars,
                   ffmpegVars,
                   overlapVars,
                   pipeVars, whisperVars>>

\* pages.update of the page found.  integrated-server.js is done with it:
\* duplicate: true with the page's id; the service goes on to list the
\* page's blocks.  A failed request gives success: false.
NUpdate ==
    /\ nPc = "update"
    /\ SendRequest(RemoveTokens(nImpl))
    /\ \/ /\ nImpl = "integrated"
          /\ nContent' = [nContent EXCEPT ![nFound].status = "Updated"]
          /\ NReturn(SyncOk(nFound, TRUE))
       \/ /\ nImpl = "service"
          /\ nContent' = [nContent EXCEPT ![nFound].status = "Updated"]
          /\ nPc' = "list"
          /\ UNCHANGED <<nFound, nResults>>
       \/ /\ NReturn(SyncFailed)
          /\ UNCHANGED nContent
    /\ UNCHANGED <<nImpl, nHasVideoId, nPages, nBlocks, propVars,
                   splitVars, confVars,
                   pendingVars,
                   ffmpegVars,
                   overlapVars,
                   pipeVars, whisperVars>>

\* the blocks a page has when it is listed
MaxBlocks == 2

\* service: blocks.children.list, after a token, answers with the page's
\* blocks.  With blocks there (blocks.results.length > 0), one more token is
\* taken ahead of the loop that deletes them.
NListBlocks ==
    /\ nPc = "list"
    /\ \/ /\ nBlocks' \in 0..MaxBlocks
          /\ nPc' = IF nBlocks' > 0 THEN "delete" ELSE "append"
          /\ SendRequest(RemoveTokens(nImpl)
                           + (IF nBlocks' > 0 THEN RemoveTokens(nImpl) ELSE 0))
          /\ UNCHANGED <<nFound, nResults>>
       \/ /\ NReturn(SyncFailed)
          /\ SendRequest(RemoveTokens(nImpl))
          /\ UNCHANGED nBlocks
    /\ UNCHANGED <<nContent, nImpl, nHasVideoId, nPages, propVars,
                   splitVars, confVars,
                   pendingVars,
                   ffmpegVars,
                   overlapVars,
                   pipeVars, whisperVars>>

\* service: one turn of for (const block of blocks.results): blocks.delete
\* of one block; no removeTokens in the body of the loop
NDeleteBlock ==
    /\ nPc = "delete"
    /\ SendRequest(0)
    /\ \/ /\ nBlocks' = nBlocks - 1
          /\ nContent' = [nContent EXCEPT ![nFound].body = 0]
          /\ nPc' = IF nBlocks' > 0 THEN "delete" ELSE "append"
          /\ UNCHANGED <<nFound, nResults>>
       \/ /\ NReturn(SyncFailed)
          /\ nBlocks' = 0
          /\ UNCHANGED nContent
    /\ UNCHANGED <<nImpl, nHasVideoId, nPages, propVars,
                   splitVars, confVars,
                   pendingVars,
                   ffmpegVars,
                   overlapVars,
                   pipeVars, whisperVars>>

\* service: blocks.children.append of the new content, after a token, ends
\* the update: duplicate: true with the page's id, or success: false
NAppend ==
    /\ nPc = "append"
    /\ SendRequest(RemoveTokens(nImpl))
    /\ \/ /\ nContent' = [nContent EXCEPT ![nFound].body = ThisCall]
          /\ NReturn(SyncOk(nFound, TRUE))
       \/ /\ NReturn(SyncFailed)
          /\ UNCHANGED nContent
    /\ UNCHANGED <<nImpl, nHasVideoId, nPages, nBlocks, propVars,
                   splitVars, confVars,
                   pendingVars,
                   ffmpegVars,
                   overlapVars,
                   pipeVars, whisperVars>>

\* await pages.create answers with the id of the new page: duplicate: false
NCreateOk ==
    /\ nPc = "create"
    /\ SendRequest(RemoveTokens(nImpl))
    /\ nPages' = nPages \cup {Cardinality(nPages) + 1}
    /\ nContent' = Append(nContent, [body |-> ThisCall, status |-> "Synced"])
    /\ NReturn(SyncOk(Cardinality(nPages) + 1, FALSE))
    /\ UNCHANGED <<nImpl, nHasVideoId, nBlocks, propVars,
                   splitVars, confVars,
                   pendingVars,
                   ffmpegVars,
                   overlapVars,
                   pipeVars, whisperVars>>

\* pages.create fails: success: false, no page
NCreateFails ==
    /\ nPc = "create"
    /\ SendRequest(RemoveTokens(nImpl))
    /\ NReturn(SyncFailed)
    /\ UNCHANGED <<nContent, nImpl, nHasVideoId, nPages, nBlocks, propVars,
                   splitVars, confVars,
                   pendingVars,
                   ffmpegVars,
                   overlapVars,
                   pipeVars, whisperVars>>

InitNotion ==
    /\ PipeIdle
    /\ WhisperIdle
    /\ OverlapIdle
    /\ FFmpegIdle
    /\ PendingIdle
    /\ ConfIdle
    /\ PropIdle
    /\ SplitIdle
    /\ \/ nImpl = "service" /\ nHasVideoId = TRUE
       \/ nImpl = "integrated" /\ nHasVideoId \in BOOLEAN
    /\ nPages = {} /\ nPc = "idle" /\ nFound = 0 /\ nResults = <<>>
    /\ nTokens = 0 /\ nSent = 0 /\ nBlocks = 0 /\ nContent = <<>>

NextNotion ==
    \/ NBeginCall
    \/ NRetrieve
    \/ NQueryOk
    \/ NQueryFails
    \/ NUpdate
    \/ NListBlocks
    \/ NDeleteBlock
    \/ NAppend
    \/ NCreateOk
    \/ NCreateFails

SpecNotion == InitNotion /\ [][NextNotion]_vars

\* ------------------------------------------ the properties a sync writes
\* the property names the sync code knows
Expected == {"Title", "Video File", "Duration", "Confidence", "Language",
             "Upload Date", "Transcription Date", "Video ID", "Status"}

\* the values a transcript may lack: transcriptData.duration ? {...} : undefined
Optional == {"Duration", "Confidence", "Language"}

\* a database always has one property of type title, under whatever name
TitleProperty(schema) == IF "Title" \in schema THEN "Title" ELSE "Name"

\* Object.keys(database.properties)
availableProperties(schema) == schema \cup {TitleProperty(schema)}

\* NotionService.createTranscriptPage: the literal of createParams.properties,
\* less the keys whose value is undefined; the schema is not read
ServiceCreateProperties(data) == (Expected \ Optional) \cup data

\* NotionService.updateTranscriptPage: pages.update({properties: {...}})
ServiceUpdateProperties == {"Title", "Transcription Date", "Status"}

\* integrated create: the title property found by its type, and each other
\* property only if (availableProperties.includes(name)) [&& its value]
IntegratedCreateProperties(schema, data) ==
    {TitleProperty(schema)}
        \cup {f \in (Expected \ {"Title"}) \cap availableProperties(schema) :
                f \in Optional => f \in data}

\* integrated update: pages.update({properties: {'Title', 'Status'}})
IntegratedUpdateProperties == {"Title", "Status"}

\* the request is built on one of the four paths; the update paths are
\* reached through a query that filters on 'Video ID'
PBuild(path, sent) ==
    /\ pPath' = path
    /\ pSent' = sent
    /\ UNCHANGED <<pSchema, pData, pOutcome>>
    /\ UNCHANGED <<nImpl, nHasVideoId, nPages, nPc, nFound, nResults,
                   callVars, splitVars, confVars,
                   pendingVars,
                   ffmpegVars,
                   overlapVars,
                   pipeVars, whisperVars>>

PServiceCreate ==
    /\ pPath = "none"
    /\ PBuild("service.create", ServiceCreateProperties(pData))

PServiceUpdate ==
    /\ pPath = "none"
    /\ "Video ID" \in pSchema
    /\ PBuild("service.update", ServiceUpdateProperties)

PIntegratedCreate ==
    /\ pPath = "none"
    /\ PBuild("integrated.create", IntegratedCreateProperties(pSchema, pData))

PIntegratedUpdate ==
    /\ pPath = "none"
    /\ "Video ID" \in pSchema
    /\ PBuild("integrated.update", IntegratedUpdateProperties)

\* the workspace answers pages.create / pages.update: a request naming a
\* property the database does not have is rejected (validation_error), which
\* the service turns into success: false and the handler into status 500;
\* a request with known properties succeeds or fails for another reason
PRespond ==
    /\ pPath # "none" /\ pOutcome = "none"
    /\ IF pSent \subseteq availableProperties(pSchema)
         THEN pOutcome' \in {"ok", "failed"}
         ELSE pOutcome' = "rejected"
    /\ UNCHANGED <<pSchema, pData, pPath, pSent>>
    /\ UNCHANGED <<nImpl, nHasVideoId, nPages, nPc, nFound, nResults,
                   callVars, splitVars, confVars,
                   pendingVars,
                   ffmpegVars,
                   overlapVars,
                   pipeVars, whisperVars>>

InitProps ==
    /\ PipeIdle
    /\ WhisperIdle
    /\ OverlapIdle
    /\ FFmpegIdle
    /\ PendingIdle
    /\ ConfIdle
    /\ SplitIdle
    /\ nImpl = "service" /\ nHasVideoId = TRUE /\ nPages = {}
    /\ nPc = "idle" /\ nFound = 0 /\ nResults = <<>>
    /\ nTokens = 0 /\ nSent = 0 /\ nBlocks = 0 /\ nContent = <<>>
    /\ pSchema \in SUBSET Expected
    /\ pData \in SUBSET Optional
    /\ pPath = "none" /\ pSent = {} /\ pOutcome = "none"

NextProps ==
    \/ PServiceCreate
    \/ PServiceUpdate
    \/ PIntegratedCreate
    \/ PIntegratedUpdate
    \/ PRespond

SpecProps == InitProps /\ [][NextProps]_vars

\* ------------------------------------------------- the body text in chunks
\* Strings are sequences of characters.  The ceiling of one block's text,
\* 1900 in chunkText(transcriptData.content, 1900) and in chunkSize = 1900, is
\* scaled down with the texts.
ChunkCeiling == 3
MaxTextLen == 6

Chars == {"a", "b", " ", "\n"}
Whitespace == {" ", "\n"}

Texts == UNION {[1..n -> Chars] : n \in 0..MaxTextLen}

Min(a, b) == IF a < b THEN a ELSE b

\* String.prototype.split(' '): the pieces between the spaces, empty ones kept
RECURSIVE SplitFrom(_, _, _)
SplitFrom(text, i, word) ==
    IF i > Len(text) THEN <<word>>
    ELSE IF text[i] = " " THEN <<word>> \o SplitFrom(text, i + 1, <<>>)
    ELSE SplitFrom(text, i + 1, Append(word, text[i]))

Split(text) == SplitFrom(text, 1, <<>>)

\* String.prototype.trim()
RECURSIVE TrimStart(_)
TrimStart(str) ==
    IF str # <<>> /\ Head(str) \in Whitespace THEN TrimStart(Tail(str)) ELSE str

RECURSIVE TrimEnd(_)
TrimEnd(str) ==
    IF str # <<>> /\ str[Len(str)] \in Whitespace
      THEN TrimEnd(SubSeq(str, 1, Len(str) - 1)) ELSE str

Trim(str) == TrimEnd(TrimStart(str))

\* a variant that loses the word that did not fit
NextChunkEmpty(word) == <<" ">>

\* currentChunk = word + ' '
NextChunk(word) == word \o <<" ">>

\* for (const word of words) { ... } if (currentChunk) { chunks.push(...) }
RECURSIVE ChunkWords(_, _, _, _)
ChunkWords(words, chunks, currentChunk, maxLength) ==
    IF words = <<>>
      THEN IF currentChunk # <<>> THEN Append(chunks, Trim(currentChunk))
           ELSE chunks
    ELSE LET word == Head(words) IN
         IF Len(currentChunk) + Len(word) > maxLength
           THEN IF currentChunk # <<>>
                  THEN ChunkWords(Tail(words),
                                  Append(chunks, Trim(currentChunk)),
                                  NextChunk(word), maxLength)
                  ELSE ChunkWords(Tail(words), Append(chunks, word),
                                  currentChunk, maxLength)
           ELSE ChunkWords(Tail(words), chunks,
                           currentChunk \o word \o <<" ">>, maxLength)

\* NotionService.chunkText
chunkText(text, maxLength) ==
    IF Len(text) <= maxLength THEN <<text>>
    ELSE ChunkWords(Split(text), <<>>, <<>>, maxLength)

\* integrated-server.js: for (i = 0; i < length; i += chunkSize)
\*                         chunks.push(transcriptText.substring(i, i + chunkSize))
RECURSIVE Substrings(_, _, _)
Substrings(text, i, chunkSize) ==
    IF i < Len(text)
      THEN <<SubSeq(text, i + 1, Min(i + chunkSize, Len(text)))>>
             \o Substrings(text, i + chunkSize, chunkSize)
      ELSE <<>>

\* buildPageContent: this.chunkText(transcriptData.content, 1900)
SChunkText ==
    /\ sBy = "none"
    /\ sBy' = "service"
    /\ sChunks' = chunkText(sText, ChunkCeiling)
    /\ UNCHANGED <<sText, nImpl, nHasVideoId, nPages, nPc, nFound, nResults,
                   callVars, propVars, confVars,
                   pendingVars,
                   ffmpegVars,
                   overlapVars,
                   pipeVars, whisperVars>>

\* the create path of POST /api/notion/sync/transcript/:videoId
SSubstring ==
    /\ sBy = "none"
    /\ sBy' = "integrated"
    /\ sChunks' = Substrings(sText, 0, ChunkCeiling)
    /\ UNCHANGED <<sText, nImpl, nHasVideoId, nPages, nPc, nFound, nResults,
                   callVars, propVars, confVars,
                   pendingVars,
                   ffmpegVars,
                   overlapVars,
                   pipeVars, whisperVars>>

InitSplit ==
    /\ PipeIdle
    /\ WhisperIdle
    /\ OverlapIdle
    /\ FFmpegIdle
    /\ PendingIdle
    /\ ConfIdle
    /\ PropIdle
    /\ nImpl = "service" /\ nHasVideoId = TRUE /\ nPages = {}
    /\ nPc = "idle" /\ nFound = 0 /\ nResults = <<>>
    /\ nTokens = 0 /\ nSent = 0 /\ nBlocks = 0 /\ nContent = <<>>
    /\ sText \in Texts
    /\ sBy = "none" /\ sChunks = <<>>

NextSplit ==
    \/ SChunkText
    \/ SSubstring

SpecSplit == InitSplit /\ [][NextSplit]_vars

\* ------------------------------------------------------- the confidence
\* Numbers are fixed-point.  A log probability is a whole number of 12ths, so
\* that the mean of up to 4 of the values drawn is whole as well; a confidence
\* is in thousandths.  0/0 is NaN.
MaxSegments == 3
LogProbUnit == 12
Milli == 1000

Number(v) == [nan |-> FALSE, value |-> v]
NaN == [nan |-> TRUE, value |-> 0]

\* segment.avg_logprob of the segments drawn: 0, -1, -2
LogProbs == {0, -LogProbUnit, -2 * LogProbUnit}

SegmentLists == UNION {[1..n -> LogProbs] : n \in 0..MaxSegments}

\* Math.exp(k / 12) in thousandths, for k <= 0, as (11/12)^(-k) rounded down
RECURSIVE Exp(_)
Exp(k) == IF k >= 0 THEN Milli ELSE (Exp(k + 1) * (LogProbUnit - 1)) \div LogProbUnit

\* segments.reduce((sum, s) => sum + s.avg_logprob, 0)
RECURSIVE SumLogProb(_)
SumLogProb(segs) == IF segs = <<>> THEN 0 ELSE Head(segs) + SumLogProb(Tail(segs))

\* segments.reduce((sum, seg) => sum + Math.exp(seg.avg_logprob), 0)
RECURSIVE SumExp(_)
SumExp(segs) == IF segs = <<>> THEN 0 ELSE Exp(Head(segs)) + SumExp(Tail(segs))

\* a / b of two numbers, b an array's length
Divide(a, b) == IF b = 0 THEN NaN ELSE Number(a \div b)

Clamp(lo, hi, v) == IF v < lo THEN lo ELSE IF v > hi THEN hi ELSE v

\* verboseResponse.segments || []
SegmentsOrEmpty(segments) == IF segments.present THEN segments.logprobs ELSE <<>>

\* WhisperService.calculateConfidence
calculateConfidence(segments) ==
    IF Len(segments) = 0 THEN Number(0)
    ELSE Number(Clamp(0, Milli, Exp(SumLogProb(segments) \div Len(segments))))

\* integrated-server.js: transcription.segments ? reduce(...) / length : 0;
\* an empty array is truthy
IntegratedConfidence(segments) ==
    IF segments.present
      THEN Divide(SumExp(segments.logprobs), Len(segments.logprobs))
      ELSE Number(0)

\* x || 0
OrZero(x) == IF x.nan \/ x.value = 0 THEN Number(0) ELSE x

\* WhisperService.transcribeAudio builds its result
CService ==
    /\ cBy = "none"
    /\ cBy' = "service"
    /\ cConfidence' = calculateConfidence(SegmentsOrEmpty(cSegments))
    /\ UNCHANGED <<cSegments, cStored>>
    /\ UNCHANGED <<nImpl, nHasVideoId, nPages, nPc, nFound, nResults,
                   callVars, propVars, splitVars, pendingVars,
                   ffmpegVars,
                   overlapVars,
                   pipeVars, whisperVars>>

\* TranscriptionWorker.saveTranscript: transcriptionResult.confidence || 0
CSaveTranscript ==
    /\ cBy = "service" /\ cStored = Unset
    /\ cStored' = OrZero(cConfidence)
    /\ UNCHANGED <<cSegments, cBy, cConfidence>>
    /\ UNCHANGED <<nImpl, nHasVideoId, nPages, nPc, nFound, nResults,
                   callVars, propVars, splitVars, pendingVars,
                   ffmpegVars,
                   overlapVars,
                   pipeVars, whisperVars>>

\* integrated-server.js processTranscriptionJob builds the transcript and
\* attaches it to the job and the video
CIntegrated ==
    /\ cBy = "none"
    /\ cBy' = "integrated"
    /\ cConfidence' = IntegratedConfidence(cSegments)
    /\ cStored' = cConfidence'
    /\ UNCHANGED cSegments
    /\ UNCHANGED <<nImpl, nHasVideoId, nPages, nPc, nFound, nResults,
                   callVars, propVars, splitVars, pendingVars,
                   ffmpegVars,
                   overlapVars,
                   pipeVars, whisperVars>>

InitConf ==
    /\ PipeIdle
    /\ WhisperIdle
    /\ OverlapIdle
    /\ FFmpegIdle
    /\ PendingIdle
    /\ PropIdle
    /\ SplitIdle
    /\ nImpl = "service" /\ nHasVideoId = TRUE /\ nPages = {}
    /\ nPc = "idle" /\ nFound = 0 /\ nResults = <<>>
    /\ nTokens = 0 /\ nSent = 0 /\ nBlocks = 0 /\ nContent = <<>>
    /\ \/ cSegments = [present |-> FALSE, logprobs |-> <<>>]
       \/ \E l \in SegmentLists : cSegments = [present |-> TRUE, logprobs |-> l]
    /\ cBy = "none" /\ cConfidence = Unset /\ cStored = Unset

NextConf ==
    \/ CService
    \/ CSaveTranscript
    \/ CIntegrated

SpecConf == InitConf /\ [][NextConf]_vars

\* --------------------------------------------- JobRepository.findPendingJobs
MaxTableJobs == 3

\* the values of the varchar columns status and priority, letter by letter
Statuses == {"pending", "running"}
JobPriority == [low    |-> <<"l", "o", "w">>,
                normal |-> <<"n", "o", "r", "m", "a", "l">>,
                high   |-> <<"h", "i", "g", "h">>]
Priorities == {"low", "normal", "high"}

Alphabet == <<"a", "b", "c", "d", "e", "f", "g", "h", "i", "j", "k", "l", "m",
              "n", "o", "p", "q", "r", "s", "t", "u", "v", "w", "x", "y", "z">>

Code(c) == CHOOSE i \in 1..Len(Alphabet) : Alphabet[i] = c

\* the comparison of two varchar values by the store: letter by letter
RECURSIVE TextLess(_, _)
TextLess(a, b) ==
    IF b = <<>> THEN FALSE
    ELSE IF a = <<>> THEN TRUE
    ELSE IF Head(a) = Head(b) THEN TextLess(Tail(a), Tail(b))
    ELSE Code(Head(a)) < Code(Head(b))

\* ORDER BY job.priority DESC, job.createdAt ASC: row r comes before row s
OrderedBefore(r, s) ==
    \/ TextLess(JobPriority[s.priority], JobPriority[r.priority])
    \/ /\ r.priority = s.priority
       /\ r.createdAt < s.createdAt

\* the rows of a set in the order of the query
RECURSIVE Sorted(_)
Sorted(rows) ==
    IF rows = {} THEN <<>>
    ELSE LET first == CHOOSE r \in rows :
                          \A s \in rows \ {r} : OrderedBefore(r, s)
         IN  <<first>> \o Sorted(rows \ {first})

\* queryBuilder.take(limit), if (limit)
Take(rows, limit) ==
    IF limit = 0 \/ limit >= Len(rows) THEN rows ELSE SubSeq(rows, 1, limit)

\* WHERE job.status = 'pending'
PendingRows(jobs) == {jobs[i] : i \in {j \in 1..Len(jobs) : jobs[j].status = "pending"}}

findPendingJobs(jobs, limit) == Take(Sorted(PendingRows(jobs)), limit)

\* one call of findPendingJobs(limit); limit 0 stands for no limit given
FFindPendingJobs ==
    /\ ~fCalled
    /\ fCalled' = TRUE
    /\ \E limit \in 0..MaxTableJobs : fResult' = findPendingJobs(fJobs, limit)
    /\ UNCHANGED fJobs
    /\ UNCHANGED <<nImpl, nHasVideoId, nPages, nPc, nFound, nResults,
                   callVars, propVars, splitVars, confVars, ffmpegVars,
                   overlapVars,
                   pipeVars, whisperVars>>

\* the tables: row i was created at time i
Tables ==
    UNION {{[i \in 1..n |-> [status |-> st[i], priority |-> pr[i],
                             createdAt |-> i]] :
              st \in [1..n -> Statuses], pr \in [1..n -> Priorities]} :
           n \in 0..MaxTableJobs}

InitPending ==
    /\ PipeIdle
    /\ WhisperIdle
    /\ OverlapIdle
    /\ FFmpegIdle
    /\ PropIdle
    /\ SplitIdle
    /\ ConfIdle
    /\ nImpl = "service" /\ nHasVideoId = TRUE /\ nPages = {}
    /\ nPc = "idle" /\ nFound = 0 /\ nResults = <<>>
    /\ nTokens = 0 /\ nSent = 0 /\ nBlocks = 0 /\ nContent = <<>>
    /\ fJobs \in Tables
    /\ fCalled = FALSE /\ fResult = <<>>

NextPending == FFindPendingJobs

SpecPending == InitPending /\ [][NextPending]_vars

\* -------------------------------------------------- the media conversion
\* Time is in ticks; the ceiling of 10 minutes is TimeoutTicks of them.
MaxClock == 4
TimeoutTicks == 2

\* resolve / reject of a promise: the first call settles it, later ones are
\* without effect
Settle(outcome, with) == IF outcome = "pending" THEN with ELSE outcome

\* spawn(...), setTimeout(..., 10 * 60 * 1000) in runFFmpeg only
SetTimeout(impl) == IF impl = "service" THEN "armed" ELSE "none"

\* time passes
XTick ==
    /\ xClock < MaxClock
    /\ xClock' = xClock + 1
    /\ UNCHANGED <<xImpl, xProc, xExitCode, xClosePending, xTimer, xOutcome,
                   xCaller, xJob>>
    /\ UNCHANGED <<nImpl, nHasVideoId, nPages, nPc, nFound, nResults,
                   callVars, propVars, splitVars, confVars, pendingVars,
                   overlapVars,
                   pipeVars, whisperVars>>

\* the subprocess exits by itself, with code 0 or not; close is due
XExit ==
    /\ xProc = "running"
    /\ xProc' = "exited"
    /\ xExitCode' \in {0, 1}
    /\ xClosePending' = TRUE
    /\ UNCHANGED <<xImpl, xClock, xTimer, xOutcome, xCaller, xJob>>
    /\ UNCHANGED <<nImpl, nHasVideoId, nPages, nPc, nFound, nResults,
                   callVars, propVars, splitVars, confVars, pendingVars,
                   overlapVars,
                   pipeVars, whisperVars>>

\* ffmpeg.on('error'): the subprocess could not be spawned; reject(error)
XError ==
    /\ xProc = "running" /\ xClock = 0
    /\ xProc' = "errored"
    /\ xOutcome' = Settle(xOutcome, "failed")
    /\ UNCHANGED <<xImpl, xClock, xExitCode, xClosePending, xTimer, xCaller,
                   xJob>>
    /\ UNCHANGED <<nImpl, nHasVideoId, nPages, nPc, nFound, nResults,
                   callVars, propVars, splitVars, confVars, pendingVars,
                   overlapVars,
                   pipeVars, whisperVars>>

\* the timer of runFFmpeg fires: ffmpeg.kill('SIGKILL'), which ends a
\* subprocess that is running, and reject(new Error('... timed out'))
XTimeout ==
    /\ xTimer = "armed"
    /\ xClock >= TimeoutTicks
    /\ xTimer' = "fired"
    /\ IF xProc = "running"
         THEN xProc' = "killed" /\ xExitCode' = -1 /\ xClosePending' = TRUE
         ELSE UNCHANGED <<xProc, xExitCode, xClosePending>>
    /\ xOutcome' = Settle(xOutcome, "timeout")
    /\ UNCHANGED <<xImpl, xClock, xCaller, xJob>>
    /\ UNCHANGED <<nImpl, nHasVideoId, nPages, nPc, nFound, nResults,
                   callVars, propVars, splitVars, confVars, pendingVars,
                   overlapVars,
                   pipeVars, whisperVars>>

\* ffmpeg.on('close', code): code === 0 resolves, any other code rejects;
\* the second close handler of runFFmpeg clears the timer
XClose ==
    /\ xClosePending
    /\ xClosePending' = FALSE
    /\ xOutcome' = Settle(xOutcome, IF xExitCode = 0 THEN "resolved" ELSE "failed")
    /\ xTimer' = IF xTimer = "armed" THEN "cleared" ELSE xTimer
    /\ UNCHANGED <<xImpl, xClock, xProc, xExitCode, xCaller, xJob>>
    /\ UNCHANGED <<nImpl, nHasVideoId, nPages, nPc, nFound, nResults,
                   callVars, propVars, splitVars, confVars, pendingVars,
                   overlapVars,
                   pipeVars, whisperVars>>

\* the call awaiting the extraction resumes: on to the next stage, or into
\* the catch block, which writes the job failed; the worker's write is
\* updateJobStatus, which a failure of the store leaves undone
XReturn ==
    /\ xCaller = "awaiting"
    /\ xOutcome # "pending"
    /\ xCaller' = "returned"
    /\ IF xOutcome = "resolved" THEN xJob' = "extracted"
       ELSE \/ xJob' = "failed"
            \/ xImpl = "service" /\ xJob' = xJob
    /\ UNCHANGED <<xImpl, xClock, xProc, xExitCode, xClosePending, xTimer,
                   xOutcome>>
    /\ UNCHANGED <<nImpl, nHasVideoId, nPages, nPc, nFound, nResults,
                   callVars, propVars, splitVars, confVars, pendingVars,
                   overlapVars,
                   pipeVars, whisperVars>>

InitFFmpeg ==
    /\ PipeIdle
    /\ WhisperIdle
    /\ OverlapIdle
    /\ PropIdle
    /\ SplitIdle
    /\ ConfIdle
    /\ PendingIdle
    /\ nImpl = "service" /\ nHasVideoId = TRUE /\ nPages = {}
    /\ nPc = "idle" /\ nFound = 0 /\ nResults = <<>>
    /\ nTokens = 0 /\ nSent = 0 /\ nBlocks = 0 /\ nContent = <<>>
    /\ xImpl \in {"service", "integrated"}
    /\ xTimer = SetTimeout(xImpl)
    /\ xClock = 0 /\ xProc = "running" /\ xExitCode = 0
    /\ xClosePending = FALSE /\ xOutcome = "pending"
    /\ xCaller = "awaiting" /\ xJob = "processing"

NextFFmpeg ==
    \/ XTick
    \/ XExit
    \/ XError
    \/ XTimeout
    \/ XClose
    \/ XReturn

SpecFFmpeg == InitFFmpeg /\ [][NextFFmpeg]_vars

\* ------------------------------------------------ sync calls that overlap
\* Each call runs the steps of one sync, each await being a point where the
\* other call can run.  Nothing is shared between the calls but the
\* workspace.
NumSyncCalls == 2

SyncCalls == 1..NumSyncCalls

NewCall(impl) ==
    [pc |-> IF impl = "service" THEN "query" ELSE "retrieve",
     found |-> 0, query |-> "none", result |-> "none"]

OStep(c, pc, found, query, result) ==
    oCalls' = [oCalls EXCEPT ![c] =
                 [pc |-> pc, found |-> found, query |-> query, result |-> result]]

\* integrated: databases.retrieve settles; the existence query is skipped
\* when the schema has no 'Video ID'
ORetrieve(c) ==
    /\ oCalls[c].pc = "retrieve"
    /\ \/ OStep(c, IF oHasVideoId THEN "query" ELSE NAfterCheck(0), 0,
                IF oHasVideoId THEN "none" ELSE "skipped", "none")
       \/ OStep(c, "done", 0, "none", "failed")
    /\ UNCHANGED <<oImpl, oHasVideoId, oPages>>
    /\ UNCHANGED <<nImpl, nHasVideoId, nPages, nPc, nFound, nResults,
                   callVars, propVars, splitVars, confVars, pendingVars,
                   ffmpegVars, pipeVars, whisperVars>>

\* databases.query answers with the pages there are at that moment
OQueryOk(c) ==
    /\ oCalls[c].pc = "query"
    /\ \E found \in (IF oPages = {} THEN {0} ELSE oPages) :
          OStep(c, NAfterCheck(found), found, "ok", "none")
    /\ UNCHANGED <<oImpl, oHasVideoId, oPages>>
    /\ UNCHANGED <<nImpl, nHasVideoId, nPages, nPc, nFound, nResults,
                   callVars, propVars, splitVars, confVars, pendingVars,
                   ffmpegVars, pipeVars, whisperVars>>

\* databases.query fails: { exists: false } in the service, 500 in the
\* handler
OQueryFails(c) ==
    /\ oCalls[c].pc = "query"
    /\ IF oImpl = "service"
         THEN OStep(c, NAfterCheck(0), 0, "failed", "none")
         ELSE OStep(c, "done", 0, "failed", "failed")
    /\ UNCHANGED <<oImpl, oHasVideoId, oPages>>
    /\ UNCHANGED <<nImpl, nHasVideoId, nPages, nPc, nFound, nResults,
                   callVars, propVars, splitVars, confVars, pendingVars,
                   ffmpegVars, pipeVars, whisperVars>>

\* pages.create settles: a new page, or a failure
OCreate(c) ==
    /\ oCalls[c].pc = "create"
    /\ \/ /\ oPages' = oPages \cup {Cardinality(oPages) + 1}
          /\ OStep(c, "done", Cardinality(oPages) + 1, oCalls[c].query, "created")
       \/ /\ OStep(c, "done", 0, oCalls[c].query, "failed")
          /\ UNCHANGED oPages
    /\ UNCHANGED <<oImpl, oHasVideoId>>
    /\ UNCHANGED <<nImpl, nHasVideoId, nPages, nPc, nFound, nResults,
                   callVars, propVars, splitVars, confVars, pendingVars,
                   ffmpegVars, pipeVars, whisperVars>>

\* the update of the page found settles
OUpdate(c) ==
    /\ oCalls[c].pc = "update"
    /\ \/ OStep(c, "done", oCalls[c].found, oCalls[c].query, "updated")
       \/ OStep(c, "done", 0, oCalls[c].query, "failed")
    /\ UNCHANGED <<oImpl, oHasVideoId, oPages>>
    /\ UNCHANGED <<nImpl, nHasVideoId, nPages, nPc, nFound, nResults,
                   callVars, propVars, splitVars, confVars, pendingVars,
                   ffmpegVars, pipeVars, whisperVars>>

InitOverlap ==
    /\ PipeIdle
    /\ WhisperIdle
    /\ PropIdle
    /\ SplitIdle
    /\ ConfIdle
    /\ PendingIdle
    /\ FFmpegIdle
    /\ nImpl = "service" /\ nHasVideoId = TRUE /\ nPages = {}
    /\ nPc = "idle" /\ nFound = 0 /\ nResults = <<>>
    /\ nTokens = 0 /\ nSent = 0 /\ nBlocks = 0 /\ nContent = <<>>
    /\ \/ oImpl = "service" /\ oHasVideoId = TRUE
       \/ oImpl = "integrated" /\ oHasVideoId \in BOOLEAN
    /\ oPages = {}
    /\ oCalls = [c \in SyncCalls |-> NewCall(oImpl)]

NextOverlap ==
    \E c \in SyncCalls :
        \/ ORetrieve(c)
        \/ OQueryOk(c)
        \/ OQueryFails(c)
        \/ OCreate(c)
        \/ OUpdate(c)

SpecOverlap == InitOverlap /\ [][NextOverlap]_vars

\* =========================================================== properties
JobsOf(v) == {q \in QIdsOf(qjobs) : qjobs[q].videoId = v}

IsPrefix(s, t) == Len(s) <= Len(t) /\ SubSeq(t, 1, Len(s)) = s

NonDecreasing(s) == \A i \in 1..Len(s) : \A j \in i..Len(s) : s[i] <= s[j]

StageOrder == <<"extract", "transcribe", "save">>

\* The worker records a running job as 'processing'.
AllowedTransitions ==
    {<<"pending", "processing">>, <<"processing", "completed">>,
     <<"processing", "failed">>, <<"failed", "pending">>}

\* C1: every change of a job's recorded status is one of pending -> running,
\* running -> completed, running -> failed, failed -> pending; stated here
\* for the runs in which every store write succeeds.
C1_OnlyListedTransitions ==
    [][\A v \in Videos :
          (faults' = 0 /\ jobRec[v].status # "none"
              /\ jobRec'[v].status # jobRec[v].status)
          => <<jobRec[v].status, jobRec'[v].status>> \in AllowedTransitions]_vars

\* C2: the job's status is not failed before the last of the MaxAttempts
\* scheduler attempts has ended: while the record of a video with a single
\* queue job says failed, that queue job is in, or has finished, its last
\* attempt.
C2_FailedOnlyAfterLastAttempt ==
    \A v \in Videos :
        (server = "worker" /\ faults = 0 /\ jobRec[v].status = "failed"
            /\ Cardinality(JobsOf(v)) = 1)
        => \A q \in JobsOf(v) :
              \/ qjobs[q].state = "failed"
              \/ qjobs[q].state = "active"
                    /\ qjobs[q].attemptsMade = MaxAttempts - 1

\* C3: at most one run is in progress for a given video at any time.
C3_OneActivePerVideo ==
    \A v \in Videos :
        Cardinality({q \in JobsOf(v) : qjobs[q].state = "active"}) <= 1

\* C4: a job recorded as completed has a stored transcript for its video,
\* and a run gets past the persistence stage, towards the completed
\* writes, only with its transcript stored.
C4_CompletedHasTranscript ==
    /\ \A v \in Videos :
          jobRec[v].status = "completed" => transcripts[v] >= 1
    /\ \A q \in QIdsOf(qjobs) :
          qjobs[q].pc \in {"videoCompleted", "jobCompleted", "finish"}
          => /\ qjobs[q].stages = StageOrder
             /\ transcripts[qjobs[q].videoId] >= 1

C4_Witness ==
    \E v \in Videos : \E q \in QIdsOf(qjobs) :
        /\ jobRec[v].status = "completed"
        /\ transcripts[v] = 1
        /\ qjobs[q].videoId # v
        /\ qjobs[q].pc = "videoFailed"
        /\ qjobs[q].stages = <<"extract", "transcribe">>
        /\ qjobs[q].reports[Len(qjobs[q].reports)] = 90
        /\ jobRec[qjobs[q].videoId].status = "failed"
        /\ transcripts[qjobs[q].videoId] = 0

\* C5: within one attempt the progress percentages reported, the one
\* written on failure included, never decrease.
C5_ProgressNonDecreasing ==
    \A q \in QIdsOf(qjobs) : NonDecreasing(qjobs[q].reports)

C5_Witness ==
    \E q \in QIdsOf(qjobs) :
        /\ qjobs[q].pc = "videoFailed"
        /\ Len(qjobs[q].reports) >= 5
        /\ qjobs[q].reports[Len(qjobs[q].reports)] = 40

\* C7: the number of runs in progress never exceeds the configured maximum
\* (the worker's concurrency; 1 where nothing is configured).
C7_AtMostConfiguredMax == Cardinality(Active(qjobs)) <= concurrency

\* C8: within an attempt the stages complete in the order extraction,
\* transcription, persistence, each starting only when the one before has
\* completed in this attempt; an attempt starts with nothing completed.
C8_StagesInOrder ==
    \A q \in QIdsOf(qjobs) :
        /\ IsPrefix(qjobs[q].stages, StageOrder)
        /\ qjobs[q].pc \in {"jobProcessing", "extract", "timer", "i_extract"}
              => qjobs[q].stages = <<>>
        /\ qjobs[q].pc \in {"transcribe", "i_transcribe"}
              => qjobs[q].stages = <<"extract">>
        /\ qjobs[q].pc = "save" => qjobs[q].stages = <<"extract", "transcribe">>

C8_Witness ==
    \E q \in QIdsOf(qjobs) :
        /\ qjobs[q].attemptsMade >= 1
        /\ qjobs[q].pc = "save"
        /\ qjobs[q].stages = <<"extract", "transcribe">>

\* C6: of two sync calls made one after the other that both report success,
\* the second returns duplicate = true with the first one's page id, and
\* one page exists for the video.
C6_SecondSyncIsDuplicate ==
    (Len(nResults) >= 2 /\ nResults[1].success /\ nResults[2].success)
    => /\ nResults[2].duplicate
       /\ nResults[2].pageId = nResults[1].pageId
       /\ Cardinality(nPages) = 1

\* C9: one transcribeAudio call makes at most 3 requests, makes a further
\* request only after a transient failure (network error, 5xx, 429), and
\* waits 1 s, 2 s, 4 s before the further requests.
TransientKinds == {NetworkError, 429} \cup {e \in ErrorKinds : e >= 500}

C9_AtMostThreeRequests ==
    /\ wRequests <= 3
    /\ \A i \in 1..Len(wWaits) : wFailures[i] \in TransientKinds
    /\ IsPrefix(wWaits, <<1000, 2000, 4000>>)

\* C10: after a request that failed with a 4xx status other than 429 there
\* is no backoff wait and no further request.
NonRetryable(e) == e >= 400 /\ e < 500 /\ e # 429

C10_NoRetryOnClientError ==
    \A i \in 1..Len(wFailures) :
        NonRetryable(wFailures[i]) => i = Len(wFailures) /\ Len(wWaits) < i

\* C11: an audio file over the 25 MB limit is rejected by the transcription
\* stage without any request being sent to the provider.
C11_OversizedNeverSent == wOversized => wRequests = 0

\* C12: a job recorded as failed carries a timestamp of the failure and the
\* error's message, and its progress is an integer in 0..100.
C12_FailedRecord ==
    \A v \in Videos :
        jobRec[v].status = "failed"
        => /\ jobRec[v].completedAt
           /\ jobRec[v].error
           /\ jobRec[v].progress.kind = "number"
           /\ jobRec[v].progress.pct \in 0..100

\* C13: once an attempt that extracted an audio file has ended, completed
\* or failed, the file is deleted, unless an unlink of it failed.
C13_TempFileDeleted ==
    \A q \in QIdsOf(qjobs) :
        (qjobs[q].state \in {"completed", "delayed", "failed"}
            /\ Len(qjobs[q].stages) >= 1)
        => qjobs[q].file # "present"

\* C14: the cleanup of one run never deletes the audio file of a different
\* run that is still running: a running run that has extracted its audio
\* and has not reached its own cleanup has its file.
C14_OtherFilesUntouched ==
    \A q \in Active(qjobs) :
        qjobs[q].pc \in {"transcribe", "save", "videoCompleted", "jobCompleted",
                         "finish", "i_transcribe"}
        => Exists(qjobs[q].file)

C17_OnlyExistingProperties ==
    /\ pPath # "none" => pSent \subseteq availableProperties(pSchema)
    /\ pOutcome # "rejected"

\* C18: every request of a sync call comes after the call has acquired a
\* token of its own: at every point the requests sent are at most the tokens
\* acquired.  The service takes one token ahead of the whole loop of block
\* deletes, and integrated-server.js takes none at all: violated.
C18_TokenBeforeEveryRequest == nSent <= nTokens

\* the chunks put end to end
RECURSIVE Concat(_)
Concat(chunks) ==
    IF chunks = <<>> THEN <<>> ELSE Head(chunks) \o Concat(Tail(chunks))

\* a string less its whitespace
NonWhitespace(str) == SelectSeq(str, LAMBDA c : c \notin Whitespace)

\* text is the chunks in order with nothing but whitespace before, between
\* and after them
RECURSIVE ChunksWithGaps(_, _)
ChunksWithGaps(text, chunks) ==
    IF chunks = <<>> THEN \A i \in 1..Len(text) : text[i] \in Whitespace
    ELSE \E k \in 0..(Len(text) - Len(Head(chunks))) :
            /\ \A i \in 1..k : text[i] \in Whitespace
            /\ SubSeq(text, k + 1, k + Len(Head(chunks))) = Head(chunks)
            /\ ChunksWithGaps(SubSeq(text, k + Len(Head(chunks)) + 1, Len(text)),
                              Tail(chunks))

\* C19: a body text longer than the ceiling is split into chunks of at most
\* the ceiling each, a single word longer than the ceiling being hard-split.
\* chunkText pushes a word longer than maxLength whole: violated.
C19_ChunksWithinCeiling ==
    (sBy # "none" /\ Len(sText) > ChunkCeiling)
    => \A i \in 1..Len(sChunks) : Len(sChunks[i]) <= ChunkCeiling

\* C20: for a string longer than the ceiling, the chunks put end to end in
\* order are the original but for the whitespace of the split points: the
\* original is the chunks with only whitespace between them, and the
\* non-whitespace characters are the same, in the same order, none lost and
\* none twice.
C20_ConcatReproducesText ==
    (sBy # "none" /\ Len(sText) > ChunkCeiling)
    => /\ ChunksWithGaps(sText, sChunks)
       /\ NonWhitespace(Concat(sChunks)) = NonWhitespace(sText)

\* a text longer than the ceiling was split at word boundaries into several
\* chunks, and whitespace of the split points is gone
C20_Witness ==
    /\ sBy = "service"
    /\ Len(sText) > ChunkCeiling
    /\ Len(sChunks) >= 2
    /\ Concat(sChunks) # sText
    /\ NonWhitespace(sText) # <<>>

\* C21: with N >= 1 segments of avg_logprob <= 0 the confidence derived is in
\* [0,1]; with no segments (list absent or empty) the confidence derived and
\* stored is exactly 0.  integrated-server.js divides by the length of an
\* empty list: NaN.  Violated.
C21_ConfidenceInRange ==
    cStored # Unset
    => IF Len(SegmentsOrEmpty(cSegments)) >= 1
         THEN /\ ~cConfidence.nan
              /\ cConfidence.value \in 0..Milli
         ELSE /\ cConfidence = Number(0)
              /\ cStored = Number(0)

\* C22: there is at most one Transcript record per video, and persisting a
\* result for a video that has a transcript replaces its content: the save
\* of such a run goes through and the single record stays.  saveTranscript
\* always inserts a new Transcript, which the one-to-one relation refuses for
\* a video that has one: the run is thrown into its catch block.  Violated.
C22_SaveReplacesTranscript ==
    [][\A q \in QIdsOf(qjobs) :
          (/\ AtPc(q, "save")
           /\ transcripts[qjobs[q].videoId] >= 1
           /\ qjobs'[q].pc # "save")
          => /\ qjobs'[q].pc = NextPc("save")
             /\ transcripts'[qjobs[q].videoId] = 1]_vars

\* a queue job is superseded once a later queue job exists for its video:
\* the job record was reset by a manual call, which added the later one
Superseded(q) ==
    \E p \in QIdsOf(qjobs) : p > q /\ qjobs[p].videoId = qjobs[q].videoId

\* C23: a late completed or failed write of a superseded attempt does not
\* change the job record.  updateJobStatus is findOne, assign, save for the
\* video id, with nothing that tells the attempts apart.  Violated.
C23_StaleWriteIgnored ==
    [][\A q \in QIdsOf(qjobs) :
          (/\ Superseded(q)
           /\ AtPc(q, "jobCompleted") \/ AtPc(q, "jobFailed")
           /\ qjobs'[q] # qjobs[q])
          => jobRec'[qjobs[q].videoId] = jobRec[qjobs[q].videoId]]_vars

\* C24: a sync that finds a page with the video id updates it in place: the
\* page's body is replaced by the current transcript, its status is marked
\* updated, and the call returns duplicate = true with that page's id; a sync
\* that finds none creates a page and returns duplicate = false.  The update
\* of integrated-server.js writes Title and Status and leaves the body of
\* the page as it was.  Violated.
C24_UpdateInPlace ==
    \A k \in 1..Len(nResults) :
        (nPc = "idle" /\ k = Len(nResults) /\ nResults[k].success)
        => IF nResults[k].duplicate
             THEN /\ nResults[k].pageId \in nPages
                  /\ nContent[nResults[k].pageId].status = "Updated"
                  /\ nContent[nResults[k].pageId].body = k
             ELSE /\ nResults[k].pageId = Len(nContent)
                  /\ nContent[nResults[k].pageId].body = k

\* high before normal before low
PriorityRank(p) == CASE p = "high" -> 3 [] p = "normal" -> 2 [] p = "low" -> 1

\* C25: findPendingJobs returns only pending jobs, every job of higher
\* priority before every job of lower priority, and jobs of equal priority
\* oldest first.  The priority column holds the words 'low', 'normal',
\* 'high', and ORDER BY priority DESC puts them in the order normal, low,
\* high.  Violated.
C25_PriorityThenFifo ==
    fCalled
    => /\ \A i \in 1..Len(fResult) : fResult[i].status = "pending"
       /\ \A i, j \in 1..Len(fResult) :
             i < j => \/ PriorityRank(fResult[i].priority)
                           > PriorityRank(fResult[j].priority)
                      \/ /\ fResult[i].priority = fResult[j].priority
                         /\ fResult[i].createdAt < fResult[j].createdAt

\* C26: a subprocess still running when the timeout fires is force-killed,
\* the extraction call fails with the timeout error whatever event of the
\* killed process comes later, and the job becomes failed.  A subprocess
\* running past the ceiling therefore has its timer still to fire.
\* extractAudio of integrated-server.js sets no timer.  Violated.
C26_KilledOnTimeout ==
    /\ (xProc = "running" /\ xClock >= TimeoutTicks) => xTimer = "armed"
    /\ xProc = "killed" => xOutcome = "timeout"
    /\ (xProc = "killed" /\ xCaller = "returned") => xJob = "failed"

\* C27: sync calls for one video and database that overlap never both create
\* a page: once they have finished, with an existence query that succeeded
\* in each, at most one of them has created a page and one page carries the
\* video id.  Both calls can query before either creates.  Violated.
C27_OverlappingSyncsOnePage ==
    (\A c \in DOMAIN oCalls : oCalls[c].pc = "done" /\ oCalls[c].query = "ok")
    => /\ Cardinality({c \in DOMAIN oCalls : oCalls[c].result = "created"}) <= 1
       /\ Cardinality(oPages) <= 1

\* C28: a sync whose existence query failed creates no page and returns
\* success = false; a page is created only after an existence query that
\* succeeded and found none.  findExistingTranscript turns the failure into
\* { exists: false }, and the call goes on to pages.create.  Violated.
C28_NoCreateAfterFailedQuery ==
    \A c \in DOMAIN oCalls :
        /\ oCalls[c].query = "failed"
           => oCalls[c].pc = "done" /\ oCalls[c].result = "failed"
        /\ oCalls[c].result = "created"
           => oCalls[c].query = "ok"

\* no run of the video is between its writes
Quiescent(v) == \A q \in Active(qjobs) : qjobs[q].videoId # v

\* C29: whenever no status write is in progress the video's status agrees
\* with its job's: the video is failed only if the job is failed, completed
\* only if the job is completed.  POST /retry resets the job to pending and
\* leaves the video failed; a store failure swallowed by updateJobStatus
\* leaves the job behind the video.  Violated.
C29_VideoAgreesWithJob ==
    \A v \in Videos :
        Quiescent(v)
        => /\ videoStatus[v] = "failed" => jobRec[v].status = "failed"
           /\ videoStatus[v] = "completed" => jobRec[v].status = "completed"

\* C30: every job the scheduler starts eventually has its record set to
\* completed or failed, given that every external call settles, store
\* writes that fail included.
Started(q) == q \in Active(qjobs)
Settled(q) ==
    /\ q \in QIdsOf(qjobs)
    /\ jobRec[qjobs[q].videoId].status \in {"completed", "failed"}
C30_StartedJobSettles ==
    \A q \in 1..MaxQueueJobs : Started(q) ~> Settled(q)

====
